---- MODULE Spec2Model ----
(***************************************************************************)
(* Model of pycaptioner/addtext.py: the CapImg captioner (addtext, finish, *)
(* _wrap_text, _wrap, _broken_words) and its balloon geometry              *)
(* (_draw_balloon, _calc_tail).                                            *)
(*                                                                         *)
(* Strings are sequences of one-character strings.  Python's None is the   *)
(* empty sequence for lists and NoSide for a side.  Pixel values that the  *)
(* code computes with true division (base_width / 2) are kept exact by     *)
(* drawing only even image sizes; that a value is a Python float is kept   *)
(* as a flag where the code's behaviour depends on it (textwrap slicing).  *)
(***************************************************************************)
EXTENDS Integers, Sequences, FiniteSets, TLC

VARIABLES cfg, text, words, out, geo, plan, wq, bq

vars == <<cfg, text, words, out, geo, plan, wq, bq>>

(***************************************************************************)
(* Side enumeration                                                        *)
(***************************************************************************)
TOP == 1
RIGHT == 2
BOTTOM == 3
LEFT == 4
NW == 5
NE == 6
SE == 7
SW == 8
N == 9
E == 10
W == 11
S == 12
NoSide == 0

is_inner(v) == v >= NW

Abs(i) == IF i < 0 THEN 0 - i ELSE i
Max(a, b) == IF a >= b THEN a ELSE b

(***************************************************************************)
(* Balloon geometry                                                        *)
(***************************************************************************)
InBB_Strict(x, y, w, h, tx, ty) ==
    /\ x - 20 < tx /\ tx < x + w + 20
    /\ y - 20 < ty /\ ty < y + h + 20

\* bb = (x - 20, y - 20, x + w + 20, y + h + 20); the test of line 375
InBB(x, y, w, h, tx, ty) ==
    /\ x - 20 <= tx /\ tx <= x + w + 20
    /\ y - 20 <= ty /\ ty <= y + h + 20

\* l1: -1 when ty is greater than the first diagonal's y at tx, else 1.
\* The code compares floats, m1 * tx + (y - m1 * x) with m1 = h / w; for a
\* point exactly on the diagonal the rounding of h / w decides, so there the
\* result is the choice `tie'.
L1(x, y, w, h, tx, ty, tie) ==
    IF (ty - y) * w > h * (tx - x) THEN 0 - 1
    ELSE IF (ty - y) * w < h * (tx - x) THEN 1
    ELSE tie

L2_NoHeight(x, y, w, h, tx, ty, tie) ==
    IF (ty - y) * w > (0 - h) * (tx - x) THEN 0 - 1
    ELSE IF (ty - y) * w < (0 - h) * (tx - x) THEN 1
    ELSE tie

\* l2: the same for the second diagonal, m2 = -h / w, b2 = y + h - m2 * x
L2(x, y, w, h, tx, ty, tie) ==
    IF (ty - y - h) * w > (0 - h) * (tx - x) THEN 0 - 1
    ELSE IF (ty - y - h) * w < (0 - h) * (tx - x) THEN 1
    ELSE tie

\* lines 395-406: the gap segment and the side for the signs l1, l2, with
\* tw = w // 8 and th = h // 8
TailSeg(x, y, w, h, tw, th, l1, l2) ==
    IF l1 > 0 /\ l2 > 0
    THEN [err |-> "none", side |-> TOP,
          seg |-> << <<x + (w \div 2) - tw, y>>,
                     <<x + (w \div 2) + tw, y>> >>]
    ELSE IF l1 > 0 /\ l2 < 0
    THEN [err |-> "none", side |-> RIGHT,
          seg |-> << <<x + w, y + (h \div 2) - th>>,
                     <<x + w, y + (h \div 2) + th>> >>]
    ELSE IF l1 < 0 /\ l2 > 0
    THEN [err |-> "none", side |-> LEFT,
          seg |-> << <<x, y + (h \div 2) - th>>,
                     <<x, y + (h \div 2) + th>> >>]
    ELSE [err |-> "none", side |-> BOTTOM,
          seg |-> << <<x + (w \div 2) - tw, y + h>>,
                     <<x + (w \div 2) + tw, y + h>> >>]

\* _calc_tail: (seg, side), or the ZeroDivisionError of h / w
_calc_tail(x, y, w, h, tx, ty, tie1, tie2) ==
    IF InBB(x, y, w, h, tx, ty)
    THEN [err |-> "none", seg |-> <<>>, side |-> NoSide]
    ELSE IF w = 0
    THEN [err |-> "ZeroDivisionError", seg |-> <<>>, side |-> NoSide]
    ELSE TailSeg(x, y, w, h, w \div 8, h \div 8,
                 L1(x, y, w, h, tx, ty, tie1), L2(x, y, w, h, tx, ty, tie2))

\* a draw call: its kind, the loop position that issued it, its coordinates
Prim(kind, role, p) == [kind |-> kind, role |-> role, p |-> p]

Line(role, a, b) == Prim("line", role, <<a[1], a[2], b[1], b[2]>>)

\* corner radius tiers, lines 326-331
CornerR(w, h) ==
    IF w > 50 /\ h > 50 THEN 10
    ELSE IF w > 20 /\ h > 20 THEN 5
    ELSE 0

\* lines 316-324: the tail, when there is a gap segment
TailPrims(t, tx, ty, bfill) ==
    IF t.seg = <<>> THEN <<>>
    ELSE IF bfill
    THEN << Prim("polygon", "tail",
                 <<t.seg[1][1], t.seg[1][2], t.seg[2][1], t.seg[2][2], tx, ty>>) >>
    ELSE << Line("tail", t.seg[1], <<tx, ty>>),
            Line("tail", t.seg[2], <<tx, ty>>) >>

\* lines 339-347: one vertical edge, xoffs = 0 (left) or w (right)
VertEdge(t, x, y, w, h, rr_y2, xoffs, role) ==
    IF (t.side = LEFT /\ xoffs = 0) \/ (t.side = RIGHT /\ xoffs = w)
    THEN << Line(role, <<x + xoffs, y + rr_y2>>, <<x + xoffs, t.seg[1][2]>>),
            Line(role, <<x + xoffs, t.seg[2][2]>>, <<x + xoffs, y - rr_y2 + h>>) >>
    ELSE << Line(role, <<x + xoffs, y + rr_y2>>, <<x + xoffs, y - rr_y2 + h>>) >>

\* lines 349-357: one horizontal edge, yoffs = 0 (top) or h (bottom)
HorizEdge(t, x, y, w, h, rr_x2, yoffs, role) ==
    IF (t.side = TOP /\ yoffs = 0) \/ (t.side = BOTTOM /\ yoffs = h)
    THEN << Line(role, <<x + rr_x2, y + yoffs>>, <<t.seg[1][1], y + yoffs>>),
            Line(role, <<t.seg[2][1], y + yoffs>>, <<x - rr_x2 + w, y + yoffs>>) >>
    ELSE << Line(role, <<x + rr_x2, y + yoffs>>, <<x - rr_x2 + w, y + yoffs>>) >>

\* lines 333-357: the body, two filled rectangles or four edges
BodyPrims(t, x, y, w, h, rr2, bfill) ==
    IF bfill
    THEN << Prim("rectangle", "body", <<x, y + rr2, x + w, y + h - rr2>>),
            Prim("rectangle", "body", <<x + rr2, y, x + w - rr2, y + h>>) >>
    ELSE VertEdge(t, x, y, w, h, rr2, 0, "left")
         \o VertEdge(t, x, y, w, h, rr2, w, "right")
         \o HorizEdge(t, x, y, w, h, rr2, 0, "top")
         \o HorizEdge(t, x, y, w, h, rr2, h, "bottom")

\* lines 359-371: the four corners
Corner(x, y, rr, xoffs, yoffs, sa, bfill) ==
    Prim(IF bfill THEN "pieslice" ELSE "arc", "corner",
         <<x + xoffs, y + yoffs, x + xoffs + rr, y + yoffs + rr,
           sa, (sa + 90) % 360>>)

CornerPrims(x, y, w, h, rr, bfill) ==
    << Corner(x, y, rr, 0, 0, 180, bfill),
       Corner(x, y, rr, w - rr, 0, 270, bfill),
       Corner(x, y, rr, w - rr, h - rr, 0, bfill),
       Corner(x, y, rr, 0, h - rr, 90, bfill) >>

\* _draw_balloon: the draw calls in order, or the error of _calc_tail, which
\* is raised before anything is drawn
\* lines 316-371, with t the result of _calc_tail and rr the corner radius
BalloonPrims(t, x, y, w, h, tx, ty, bfill, rr) ==
    IF t.err # "none"
    THEN [err |-> t.err, seg |-> <<>>, side |-> NoSide, prims |-> <<>>]
    ELSE [err |-> "none", seg |-> t.seg, side |-> t.side,
          prims |-> TailPrims(t, tx, ty, bfill)
                    \o BodyPrims(t, x, y, w, h, rr \div 2, bfill)
                    \o CornerPrims(x, y, w, h, rr, bfill)]

_draw_balloon(x, y, w, h, tx, ty, bfill, tie1, tie2) ==
    BalloonPrims(_calc_tail(x, y, w, h, tx, ty, tie1, tie2),
                 x, y, w, h, tx, ty, bfill, CornerR(w, h))

(***************************************************************************)
(* Strings                                                                 *)
(***************************************************************************)
IsSpace(c) == c = " "
IsWordChar(c) == c \in {"a", "b"}

Take(s, k) == SubSeq(s, 1, IF k > Len(s) THEN Len(s) ELSE k)
Drop(s, k) == SubSeq(s, k + 1, Len(s))

RECURSIVE LStrip(_)
LStrip(s) == IF s # <<>> /\ IsSpace(Head(s)) THEN LStrip(Tail(s)) ELSE s

RECURSIVE RStrip(_)
RStrip(s) ==
    IF s # <<>> /\ IsSpace(s[Len(s)]) THEN RStrip(SubSeq(s, 1, Len(s) - 1)) ELSE s

\* str.strip()
Strip(s) == RStrip(LStrip(s))

\* ' '.join(list)
RECURSIVE JoinSpace(_)
JoinSpace(l) ==
    IF l = <<>> THEN <<>>
    ELSE IF Len(l) = 1 THEN l[1]
    ELSE l[1] \o <<" ">> \o JoinSpace(Tail(l))

\* ''.join(list)
RECURSIVE Concat(_)
Concat(l) == IF l = <<>> THEN <<>> ELSE Head(l) \o Concat(Tail(l))

\* re.findall('\w+', s): the maximal runs of word characters, in order
RECURSIVE FindAllWords(_, _)
FindAllWords(s, cur) ==
    IF s = <<>> THEN (IF cur = <<>> THEN <<>> ELSE <<cur>>)
    ELSE IF IsWordChar(Head(s)) THEN FindAllWords(Tail(s), Append(cur, Head(s)))
    ELSE (IF cur = <<>> THEN <<>> ELSE <<cur>>) \o FindAllWords(Tail(s), <<>>)

Tokens(s) == FindAllWords(s, <<>>)

\* the tokens of each line, in order
RECURSIVE LineTokens(_)
LineTokens(lines) ==
    IF lines = <<>> THEN <<>> ELSE Tokens(Head(lines)) \o LineTokens(Tail(lines))

paragraph_marker == <<"/", "/">>

\* paragraph_marker in text
RECURSIVE HasMarker(_)
HasMarker(s) ==
    /\ Len(s) >= 2
    /\ \/ Take(s, 2) = paragraph_marker
       \/ HasMarker(Tail(s))

\* text.split(paragraph_marker): left to right, non-overlapping
RECURSIVE SplitMarker(_, _)
SplitMarker(s, cur) ==
    IF Len(s) >= 2 /\ Take(s, 2) = paragraph_marker
    THEN <<cur>> \o SplitMarker(Drop(s, 2), <<>>)
    ELSE IF s = <<>> THEN <<cur>>
    ELSE SplitMarker(Tail(s), Append(cur, Head(s)))

(***************************************************************************)
(* textwrap.wrap(text, width) with the default options, for text made of   *)
(* letters, spaces and slashes.  width is the floor of the width passed;   *)
(* isfloat tells that the width passed is a Python float, which            *)
(* _handle_long_word cannot slice with (TypeError).                        *)
(***************************************************************************)
\* TextWrapper._split: runs of whitespace and runs of non-whitespace
RECURSIVE Chunks(_, _)
Chunks(s, cur) ==
    IF s = <<>> THEN (IF cur = <<>> THEN <<>> ELSE <<cur>>)
    ELSE IF cur = <<>> \/ (IsSpace(cur[1]) <=> IsSpace(Head(s)))
    THEN Chunks(Tail(s), Append(cur, Head(s)))
    ELSE <<cur>> \o Chunks(Tail(s), <<Head(s)>>)

IsBlank(chunk) == \A i \in 1..Len(chunk) : IsSpace(chunk[i])

\* the inner while: chunks that fit on the current line
RECURSIVE FillLine(_, _, _, _)
FillLine(chunks, cur_line, cur_len, width) ==
    IF chunks # <<>> /\ cur_len + Len(Head(chunks)) <= width
    THEN FillLine(Tail(chunks), Append(cur_line, Head(chunks)),
                  cur_len + Len(Head(chunks)), width)
    ELSE [chunks |-> chunks, cur_line |-> cur_line, cur_len |-> cur_len]

\* a whitespace chunk at the start of a line other than the first is dropped
DropLeading(chunks, lines) ==
    IF IsBlank(Head(chunks)) /\ lines # <<>> THEN Tail(chunks) ELSE chunks

\* the next chunk is too long for any line
LongWord(f, width) == f.chunks # <<>> /\ Len(Head(f.chunks)) > width

\* _handle_long_word: the line takes space_left characters of the chunk
BreakLong(f, space_left) ==
    [chunks |-> <<Drop(Head(f.chunks), space_left)>> \o Tail(f.chunks),
     cur_line |-> Append(f.cur_line, Take(Head(f.chunks), space_left))]

\* a whitespace chunk at the end of the line is dropped
DropTrailing(cur_line) ==
    IF cur_line # <<>> /\ IsBlank(cur_line[Len(cur_line)])
    THEN SubSeq(cur_line, 1, Len(cur_line) - 1) ELSE cur_line

AddLine(lines, cur_line) ==
    IF cur_line # <<>> THEN Append(lines, Concat(cur_line)) ELSE lines

\* TextWrapper._wrap_chunks
RECURSIVE WrapChunks(_, _, _, _)

\* the end of the outer loop body: the line g.cur_line is added
EndLine(g, lines, width, isfloat) ==
    WrapChunks(g.chunks, AddLine(lines, DropTrailing(g.cur_line)), width, isfloat)

\* one line, from f, the chunks that fit: a chunk too long for any line is
\* broken, which a float width >= 1 cannot do (space_left is a float)
WrapLine(f, lines, width, isfloat) ==
    IF ~LongWord(f, width) THEN EndLine(f, lines, width, isfloat)
    ELSE IF isfloat /\ width >= 1 THEN [err |-> "TypeError", lines |-> <<>>]
    ELSE EndLine(BreakLong(f, IF width < 1 THEN 1 ELSE width - f.cur_len),
                 lines, width, isfloat)

WrapChunks(chunks0, lines, width, isfloat) ==
    IF chunks0 = <<>> THEN [err |-> "none", lines |-> lines]
    ELSE WrapLine(FillLine(DropLeading(chunks0, lines), <<>>, 0, width),
                  lines, width, isfloat)

TextwrapWrap(s, width, isfloat) == WrapChunks(Chunks(s, <<>>), <<>>, width, isfloat)

\* the loop of _wrap over the paragraphs
\* lines.extend: an error in a paragraph ends the loop
Extend(this, rest) ==
    IF this.err # "none" THEN this
    ELSE IF rest.err # "none" THEN rest
    ELSE [err |-> "none", lines |-> this.lines \o rest.lines]

RECURSIVE WrapParas(_, _, _)
WrapParas(paras, width, isfloat) ==
    IF paras = <<>> THEN [err |-> "none", lines |-> <<>>]
    ELSE Extend(IF Head(paras) = <<>>
                THEN [err |-> "none", lines |-> << <<>> >>]
                ELSE TextwrapWrap(Head(paras), width, isfloat),
                WrapParas(Tail(paras), width, isfloat))

\* CapImg._wrap
_wrap(s, width, isfloat) ==
    IF ~HasMarker(s) THEN TextwrapWrap(s, width, isfloat)
    ELSE WrapParas(SplitMarker(s, <<>>), width, isfloat)

(***************************************************************************)
(* _broken_words, with the memo self._words                                *)
(***************************************************************************)
NoWords == [none |-> TRUE, toks |-> <<>>]

MemoWords_Consume(memo, s) ==
    IF memo.none \/ memo.toks = <<>>
    THEN [none |-> FALSE, toks |-> Tokens(s)]
    ELSE [none |-> FALSE, toks |-> Tail(memo.toks)]

\* lines 170-171: the memo after the call
MemoWords(memo, s) ==
    IF memo.none \/ memo.toks = <<>>
    THEN [none |-> FALSE, toks |-> Tokens(s)]
    ELSE memo

\* lines 173-184: TRUE, FALSE, or the IndexError of self._words[w]
RECURSIVE ScanWords(_, _, _)
ScanWords(toks, lws, w) ==
    IF lws = <<>> THEN "False"
    ELSE IF w + 1 > Len(toks) THEN "IndexError"
    ELSE IF toks[w + 1] # Head(lws) THEN "True"
    ELSE IF w + 1 = Len(toks) THEN "False"
    ELSE ScanWords(toks, Tail(lws), w + 1)

Scanned(m, lines) == [words |-> m, res |-> ScanWords(m.toks, LineTokens(lines), 0)]

_broken_words(memo, s, lines) == Scanned(MemoWords(memo, s), lines)

(***************************************************************************)
(* Text measurement: ImageDraw.multiline_textsize with a fixed-pitch font  *)
(***************************************************************************)
CharW == 10
GlyphH == 16
PilSpacing == 4
CalibLen == 40
CalibDiv == 37

\* fy of line 124: the height of the one-line calibration string
FY == GlyphH

RECURSIVE MaxLineLen(_)
MaxLineLen(lines) ==
    IF lines = <<>> THEN 0 ELSE Max(Len(Head(lines)), MaxLineLen(Tail(lines)))

\* line 154: the size of '\n'.join(lines); the empty string is one empty line
TextSize(lines) ==
    LET nl == Max(1, Len(lines))
    IN  <<CharW * MaxLineLen(lines), nl * (GlyphH + PilSpacing) - PilSpacing>>

\* floor of w / fx, fx = (CalibLen * CharW) / 37 (lines 128, 133)
KnownWrapWidth(w) == (CalibDiv * w) \div (CalibLen * CharW)

(***************************************************************************)
(* _wrap_text.  The state of one call: pc is "loop" (at the while test),   *)
(* "measure" (at line 153), "done" (returned) or "raised".                 *)
(***************************************************************************)
WS(pc, err, n, ml, ww, fl, lines, memo, dim) ==
    [pc |-> pc, err |-> err, n |-> n, max_lines |-> ml, wrap_width |-> ww,
     isfloat |-> fl, lines |-> lines, words |-> memo, dim |-> dim]

Raised(err, memo) == WS("raised", err, 0, 0, 0, FALSE, <<>>, memo, <<>>)

\* line 135: known width, wrapped once
Wrapped(r, memo) ==
    IF r.err # "none" THEN Raised(r.err, memo)
    ELSE WS("measure", "none", 0, 0, 0, FALSE, r.lines, memo, <<>>)

\* lines 142-144: n = len(text), max_lines = h // fy, the first wrap_width
LoopStart(n, max_lines, hfloat, memo) ==
    WS("loop", "none", n, max_lines, Max(n \div max_lines, 8),
       hfloat /\ (n \div max_lines) >= 8, <<>>, memo, <<>>)

WrapEnter_NoCheck(s, w, h, hfloat, memo) ==
    IF w > 0 THEN Wrapped(_wrap(s, KnownWrapWidth(w), TRUE), memo)
    ELSE IF w = 0
    THEN IF h < FY THEN Raised("ZeroDivisionError", memo)
         ELSE LoopStart(Len(s), h \div FY, hfloat, memo)
    ELSE Raised("UnboundLocalError", memo)

\* lines 130-144: up to the first test of the while loop.  hfloat: h is a
\* Python float, which makes h // fy and n // max_lines floats
WrapEnter(s, w, h, hfloat, memo) ==
    IF w > 0 THEN Wrapped(_wrap(s, KnownWrapWidth(w), TRUE), memo)
    ELSE IF w = 0
    THEN IF h < FY THEN Raised("TooSmall", memo)
         ELSE LoopStart(Len(s), h \div FY, hfloat, memo)
    ELSE Raised("UnboundLocalError", memo)

\* line 149, second operand: b is the result of _broken_words
Checked(ws, r, b) ==
    IF b.res = "IndexError" THEN Raised("IndexError", b.words)
    ELSE IF b.res = "False"
    THEN [ws EXCEPT !.lines = r.lines, !.words = b.words, !.pc = "measure"]
    ELSE [ws EXCEPT !.lines = r.lines, !.words = b.words, !.wrap_width = @ + 1]

Widened_NoBudget(ws, s, r) ==
    IF r.err # "none" THEN Raised(r.err, ws.words)
    ELSE Checked(ws, r, _broken_words(ws.words, s, r.lines))

\* lines 146-151: r is the result of _wrap
Widened(ws, s, r) ==
    IF r.err # "none" THEN Raised(r.err, ws.words)
    ELSE IF ~(Len(r.lines) <= ws.max_lines)
    THEN [ws EXCEPT !.lines = r.lines, !.wrap_width = @ + 1]
    ELSE Checked(ws, r, _broken_words(ws.words, s, r.lines))

\* lines 145-151: the while test and one pass through the body
WidenIter(ws, s) ==
    IF ~(ws.wrap_width < ws.n) THEN [ws EXCEPT !.pc = "measure"]
    ELSE Widened(ws, s, _wrap(s, ws.wrap_width, ws.isfloat))

\* lines 153-155
WrapMeasure(ws) == [ws EXCEPT !.pc = "done", !.dim = TextSize(ws.lines)]

RECURSIVE WrapRun(_, _)
WrapRun(ws, s) ==
    IF ws.pc = "loop" THEN WrapRun(WidenIter(ws, s), s)
    ELSE IF ws.pc = "measure" THEN WrapMeasure(ws)
    ELSE ws

\* _wrap_text(w, h) on the joined text s
_wrap_text(s, w, h, hfloat, memo) == WrapRun(WrapEnter(s, w, h, hfloat, memo), s)

(***************************************************************************)
(* finish()                                                                *)
(***************************************************************************)
\* the side tests of the placement chain, lines 198, 210, 222, 240
PlaceTB == {TOP, BOTTOM}
PlaceLR == {LEFT, RIGHT}
PlaceQuad == {NW, NE, SE, SW}
PlaceHalf == {N, E, W, S}

\* the side tests of the paste chain, lines 272-278
PasteTop == {TOP}
PasteOrigin == {BOTTOM, RIGHT}
PasteLeft == {LEFT}
PasteInner_NoS == {NE, NW, N, E, W, SE, SW}
PasteInner == {NE, NW, N, E, W, S, SE, SW}

PR(branch, tw, th, hfloat, nw, nh, xo, yo) ==
    [branch |-> branch, text_width |-> tw, text_height |-> th,
     hfloat |-> hfloat, new_width |-> nw, new_height |-> nh,
     text_xoffs |-> xo, text_yoffs |-> yo]

\* lines 196-261: the placement rectangle of the side
PlaceOf(c, base_width, base_height) ==
        IF c.side \in PlaceTB
        THEN PR("TB", base_width - 2 * c.padx,
                IF c.spc = 0 THEN 0 ELSE c.spc - 2 * c.pady, FALSE,
                base_width, base_height + c.spc,
                c.padx + c.shiftx,
                (IF c.side = TOP THEN c.pady ELSE base_height + c.pady) + c.shifty)
        ELSE IF c.side \in PlaceLR
        THEN PR("LR", IF c.spc = 0 THEN 0 ELSE c.spc - 2 * c.padx,
                base_height - 2 * c.pady, FALSE,
                base_width + c.spc, base_height,
                (IF c.side = LEFT THEN c.padx ELSE base_width + c.padx) + c.shiftx,
                c.pady + c.shifty)
        ELSE IF c.side \in PlaceQuad
        THEN     PR("Quad", (base_width \div 2) - 2 * c.padx, base_height \div 2, TRUE,
                    base_width, base_height,
                    (IF c.side = NE THEN (base_width \div 2) + c.padx
                     ELSE IF c.side = NW THEN c.padx
                     ELSE IF c.side = SE THEN c.padx + (base_width \div 2)
                     ELSE c.padx) + c.shiftx,
                    (IF c.side = NE THEN c.pady
                     ELSE IF c.side = NW THEN c.pady
                     ELSE IF c.side = SE THEN base_height - c.pady - (base_height \div 2)
                     ELSE c.pady + (base_height \div 2)) + c.shifty)
        ELSE IF c.side \in PlaceHalf
        THEN IF c.side \in {N, S}
             THEN PR("Half", base_width - 2 * c.padx,
                     (base_height \div 2) - 2 * c.pady, TRUE,
                     base_width, base_height,
                     c.padx + c.shiftx,
                     (IF c.side = N THEN c.pady
                      ELSE (base_height \div 2) + c.pady) + c.shifty)
             ELSE PR("Half", (base_width \div 2) - 2 * c.padx,
                     base_height - 2 * c.pady, FALSE,
                     base_width, base_height,
                     (IF c.side = W THEN c.padx
                      ELSE c.padx + (base_width \div 2)) + c.shiftx,
                     c.pady + c.shifty)
        ELSE PR("error", 0, 0, FALSE, 0, 0, 0, 0)

Place(c) == PlaceOf(c, c.base_width, c.base_height)

\* lines 264-268: the canvas grown by the text in auto-size mode
GrowNoDouble(c, p, dim) ==
    IF c.spc = 0 /\ c.side \in {TOP, BOTTOM}
    THEN <<p.new_width, p.new_height + dim[2] + c.pady>>
    ELSE IF c.spc = 0 /\ c.side \in {LEFT, RIGHT}
    THEN <<p.new_width + dim[1] + c.padx, p.new_height>>
    ELSE <<p.new_width, p.new_height>>

Grow(c, p, dim) ==
    IF c.spc = 0 /\ c.side \in {TOP, BOTTOM}
    THEN <<p.new_width, p.new_height + dim[2] + 2 * c.pady>>
    ELSE IF c.spc = 0 /\ c.side \in {LEFT, RIGHT}
    THEN <<p.new_width + dim[1] + 2 * c.padx, p.new_height>>
    ELSE <<p.new_width, p.new_height>>

\* lines 272-281: where the base image is pasted
Paste(c, size) ==
    IF c.side \in PasteTop
    THEN [branch |-> "Top", at |-> <<0, size[2] - c.base_height>>]
    ELSE IF c.side \in PasteOrigin
    THEN [branch |-> "Origin", at |-> <<0, 0>>]
    ELSE IF c.side \in PasteLeft
    THEN [branch |-> "Left", at |-> <<size[1] - c.base_width, 0>>]
    ELSE IF c.side \in PasteInner
    THEN [branch |-> "Inner", at |-> <<0, 0>>]
    ELSE [branch |-> "error", at |-> <<>>]

\* lines 284-285
SouthShift(c, dim) ==
    IF c.side \in {S, SE, SW}
    THEN (c.base_height \div 2) - dim[2] - 2 * c.pady
    ELSE 0

\* what one call of finish() did: the exception or "ok", the stages it went
\* through in order, and the values it computed
Out(status, steps, p, paste, lines, dim, size, xo, yo, prims) ==
    [status |-> status, steps |-> steps, branch |-> p.branch,
     paste_branch |-> paste.branch, paste |-> paste.at,
     lines |-> lines, text_dim |-> dim,
     text_width |-> p.text_width, text_height |-> p.text_height,
     canvas |-> size, text_xoffs |-> xo, text_yoffs |-> yo,
     prims |-> prims, nfinish |-> 0]

NoPaste == [branch |-> "none", at |-> <<>>]

NoOut == Out("none", <<>>, PR("none", 0, 0, FALSE, 0, 0, 0, 0), NoPaste,
             <<>>, <<>>, <<>>, 0, 0, <<>>)

Failed(status, steps, p, paste, memo) ==
    [words |-> memo,
     out |-> Out(status, steps, p, paste, <<>>, <<>>, <<>>, 0, 0, <<>>)]

\* lines 287-296: b is the result of _draw_balloon when balloon is set
Drawn(c, p, wr, size, paste, yo, b) ==
    IF c.balloon /\ b.err # "none"
    THEN Failed(b.err, <<"place", "wrap", "canvas", "paste", "balloon">>,
                p, paste, wr.words)
    ELSE [words |-> wr.words,
          out |-> Out("ok",
                      IF c.balloon
                      THEN <<"place", "wrap", "canvas", "paste", "balloon", "text">>
                      ELSE <<"place", "wrap", "canvas", "paste", "text">>,
                      p, paste, wr.lines, wr.dim, size, p.text_xoffs, yo,
                      IF c.balloon THEN b.prims ELSE <<>>)]

\* lines 272-291: the paste, the text y-offset and the balloon
Pasted(c, p, wr, size, paste, yo, tie1, tie2) ==
    IF paste.branch = "error"
    THEN Failed("ValueError:paste", <<"place", "wrap", "canvas">>, p, paste, wr.words)
    ELSE Drawn(c, p, wr, size, paste, yo,
               IF c.balloon
               THEN _draw_balloon(p.text_xoffs - 5, yo - 5, wr.dim[1] + 10,
                                  wr.dim[2] + 10, c.tailx, c.taily, c.bfill,
                                  tie1, tie2)
               ELSE [err |-> "none", prims |-> <<>>])

\* lines 264-270: the canvas
Sized(c, p, wr, size, tie1, tie2) ==
    Pasted(c, p, wr, size, Paste(c, size),
           p.text_yoffs + SouthShift(c, wr.dim), tie1, tie2)

\* lines 262-296: wr is the result of _wrap_text
Placed(c, p, wr, tie1, tie2) ==
    IF wr.pc = "raised"
    THEN Failed(wr.err, <<"place", "wrap">>, p, NoPaste, wr.words)
    ELSE Sized(c, p, wr, Grow(c, p, wr.dim), tie1, tie2)

\* lines 196-262: p is the placement of the side
Wrap(c, p, s, memo, tie1, tie2) ==
    IF p.branch = "error"
    THEN Failed("ValueError:side", <<"place">>, p, NoPaste, memo)
    ELSE Placed(c, p, _wrap_text(s, p.text_width, p.text_height, p.hfloat, memo),
                tie1, tie2)

\* finish(): the result and the memo self._words it leaves
finish(c, frags, memo, tie1, tie2) ==
    Wrap(c, Place(c), Strip(JoinSpace(frags)), memo, tie1, tie2)

(***************************************************************************)
(* Inputs                                                                  *)
(***************************************************************************)
MaxFrags == 2
MaxFinish == 2
MaxTail == 3

\* what addtext() is called with
Fragments ==
    { <<"a", "a", "a", " ", "b", "b">>,
      <<"b", "b", "b", "b", "b", "b", "b", "b", "b", "b", "b">>,
      <<"a", "/", "/", "b">>,
      <<"a", "a", "a", "a", "a", " ", "b", "b", "b", "b", "b", " ">> }

\* what the captioner's addtext() is called with
CapFragments ==
    { <<"a", "a", "a", " ", "b", "b">>,
      <<"b", "b", "b", "b", "b", "b", "b", "b", "b", "b", "b">>,
      <<"a", "/", "/", "b", " ">> }

\* side values passed to the constructor: the twelve sides and two others
SideInputs == 0..13
Sides == 1..12

BaseSizes == { <<200, 100>>, <<20, 80>>, <<20, 20>> }
Paddings == { <<5, 5>>, <<0, 3>> }
Spaces == {0, 60}

\* <<shiftx, shifty, balloon, balloon_tail, balloon_fill>>
Styles ==
    { <<0, 0, FALSE, <<0, 0>>, FALSE>>,
      <<4, 0 - 2, TRUE, <<150, 90>>, FALSE>> }

\* CapImg.__init__
CapImg(side, size, pad, space, style) ==
    [side |-> side, base_width |-> size[1], base_height |-> size[2],
     padx |-> pad[1], pady |-> pad[2], spc |-> space,
     shiftx |-> style[1], shifty |-> style[2],
     balloon |-> style[3] /\ is_inner(side),
     tailx |-> style[4][1], taily |-> style[4][2],
     bfill |-> style[3] /\ is_inner(side) /\ style[5]]

\* how the float comparisons of _calc_tail round for a point on a diagonal
Ties == {0 - 1, 1}
TiesOf(c) == IF c.balloon THEN Ties ELSE {1}

NoGeo == [x |-> 0, y |-> 0, w |-> 0, h |-> 0, tx |-> 0, ty |-> 0, bfill |-> FALSE]
NoPlan == [pc |-> "idle", err |-> "none", seg |-> <<>>, side |-> NoSide, prims |-> <<>>]
NoWq == [s |-> <<>>, w |-> 0, h |-> 0, hfloat |-> FALSE,
         ws |-> WS("idle", "none", 0, 0, 0, FALSE, <<>>, NoWords, <<>>)]
NoBq == [s |-> <<>>, lines |-> <<>>, pc |-> "idle", res |-> "none", words |-> NoWords]

(***************************************************************************)
(* The captioner: construct, addtext*, finish*                             *)
(***************************************************************************)
Init ==
    /\ cfg \in { CapImg(sd, sz, pd, sp, st) :
                   sd \in SideInputs, sz \in BaseSizes, pd \in Paddings,
                   sp \in Spaces, st \in Styles }
    /\ text = <<>>
    /\ words = NoWords
    /\ out = NoOut
    /\ geo = NoGeo
    /\ plan = NoPlan
    /\ wq = NoWq
    /\ bq = NoBq

addtext(t) ==
    /\ Len(text) < MaxFrags
    /\ text' = Append(text, t)
    /\ out' = NoOut
    /\ UNCHANGED <<cfg, words, geo, plan, wq, bq>>

\* the state after the call: what it returned or raised, and the memo
Returns(r) ==
    /\ out' = [r.out EXCEPT !.nfinish = out.nfinish + 1]
    /\ words' = r.words

Finish ==
    /\ out.nfinish < MaxFinish
    /\ \E tie1 \in TiesOf(cfg), tie2 \in TiesOf(cfg) :
         Returns(finish(cfg, text, words, tie1, tie2))
    /\ UNCHANGED <<cfg, text, geo, plan, wq, bq>>

Next ==
    \/ \E t \in CapFragments : addtext(t)
    \/ Finish

Spec == Init /\ [][Next]_vars

(***************************************************************************)
(* _draw_balloon as a function of its arguments                            *)
(***************************************************************************)
RectOrigins == { <<0, 0>>, <<30, 10>> }
RectDims == {0, 16, 40, 100}
TailCoords ==
    {0 - 200, 0 - 100, 0 - 21, 0 - 20, 50, 120, 121, 200}
        \cup { 45 * k : k \in (0 - MaxTail)..MaxTail }

DefaultCfg == CapImg(BOTTOM, <<200, 100>>, <<5, 5>>, 0, <<0, 0, FALSE, <<0, 0>>, FALSE>>)

InitBalloon ==
    /\ geo \in { [x |-> o[1], y |-> o[2], w |-> w, h |-> h,
                  tx |-> tx, ty |-> ty, bfill |-> f] :
                   o \in RectOrigins, w \in RectDims, h \in RectDims,
                   tx \in TailCoords, ty \in TailCoords, f \in BOOLEAN }
    /\ plan = [NoPlan EXCEPT !.pc = "call"]
    /\ cfg = DefaultCfg
    /\ text = <<>>
    /\ words = NoWords
    /\ out = NoOut
    /\ wq = NoWq
    /\ bq = NoBq

PlanOf(b) ==
    [pc |-> IF b.err = "none" THEN "done" ELSE "raised",
     err |-> b.err, seg |-> b.seg, side |-> b.side, prims |-> b.prims]

DrawBalloon ==
    /\ plan.pc = "call"
    /\ \E tie1 \in Ties, tie2 \in Ties :
         plan' = PlanOf(_draw_balloon(geo.x, geo.y, geo.w, geo.h, geo.tx, geo.ty,
                                      geo.bfill, tie1, tie2))
    /\ UNCHANGED <<cfg, text, words, out, geo, wq, bq>>

NextBalloon == DrawBalloon

SpecBalloon == InitBalloon /\ [][NextBalloon]_vars

(***************************************************************************)
(* _wrap_text as a function of its arguments, one loop pass per step       *)
(***************************************************************************)
FragSeqs == UNION { [1..k -> Fragments] : k \in 0..MaxFrags }

WrapWidths == {0, 90}
WrapHeights == {FY - 1, FY, 2 * FY, 3 * FY + 5}

InitWrap ==
    /\ wq \in { [s |-> Strip(JoinSpace(fs)), w |-> w, h |-> h, hfloat |-> f,
                 ws |-> WS("call", "none", 0, 0, 0, FALSE, <<>>, NoWords, <<>>)] :
                  fs \in FragSeqs, w \in WrapWidths, h \in WrapHeights,
                  f \in BOOLEAN }
    /\ cfg = DefaultCfg
    /\ text = <<>>
    /\ words = NoWords
    /\ out = NoOut
    /\ geo = NoGeo
    /\ plan = NoPlan
    /\ bq = NoBq

WrapTextEnter ==
    /\ wq.ws.pc = "call"
    /\ wq' = [wq EXCEPT !.ws = WrapEnter(wq.s, wq.w, wq.h, wq.hfloat, wq.ws.words)]
    /\ UNCHANGED <<cfg, text, words, out, geo, plan, bq>>

WidenStep ==
    /\ wq.ws.pc = "loop"
    /\ wq' = [wq EXCEPT !.ws = WidenIter(wq.ws, wq.s)]
    /\ UNCHANGED <<cfg, text, words, out, geo, plan, bq>>

WrapTextReturn ==
    /\ wq.ws.pc = "measure"
    /\ wq' = [wq EXCEPT !.ws = WrapMeasure(wq.ws)]
    /\ UNCHANGED <<cfg, text, words, out, geo, plan, bq>>

NextWrap == WrapTextEnter \/ WidenStep \/ WrapTextReturn

SpecWrap == InitWrap /\ [][NextWrap]_vars

\* the interpreter always runs the next statement of a call
FairSpecWrap == SpecWrap /\ WF_vars(NextWrap)

(***************************************************************************)
(* _broken_words as a function of its arguments, on a fresh CapImg         *)
(***************************************************************************)
\* the text argument
BrokenTexts ==
    { <<"a", "a", "b", " ", "b">>,
      <<"a", " ", "b", " ", "a">>,
      <<"a", "/", "/", "b">>,
      <<"b", "b">>,
      <<"/", "/">>,
      <<>> }

\* the lines argument: wrappings of the texts, with and without a word cut
\* in two, with a word changed, with words missing and with words added
BrokenLines ==
    { <<>>,
      << <<>> >>,
      << <<"a", "a", "b">>, <<"b">> >>,
      << <<"a", "a", "/">>, <<"b", " ", "b">> >>,
      << <<"a", "a", "b", " ", "b">> >>,
      << <<"a", "a", "b">> >>,
      << <<"a", "a", "b">>, <<"b", " ", "a">> >>,
      << <<"a", "a", "b">>, <<"a">> >>,
      << <<"a">>, <<"b">>, <<"a">> >>,
      << <<"a", " ", "b">> >>,
      << <<"a">>, <<"a", " ", "a">> >>,
      << <<"a">>, <<>>, <<"b">> >>,
      << <<"b">>, <<"b">> >>,
      << <<"b", "b">> >>,
      << <<"b", "b", " ", "a">> >>,
      << <<"/", "/">> >> }

InitBroken ==
    /\ bq \in { [NoBq EXCEPT !.s = s, !.lines = l, !.pc = "call"] :
                  s \in BrokenTexts, l \in BrokenLines }
    /\ cfg = DefaultCfg
    /\ text = <<>>
    /\ words = NoWords
    /\ out = NoOut
    /\ geo = NoGeo
    /\ plan = NoPlan
    /\ wq = NoWq

\* what the call returned or raised, and the memo it leaves
BrokenOf(b) ==
    [bq EXCEPT !.pc = IF b.res = "IndexError" THEN "raised" ELSE "done",
               !.res = b.res, !.words = b.words]

BrokenWords ==
    /\ bq.pc = "call"
    /\ bq' = BrokenOf(_broken_words(bq.words, bq.s, bq.lines))
    /\ UNCHANGED <<cfg, text, words, out, geo, plan, wq>>

NextBroken == BrokenWords

SpecBroken == InitBroken /\ [][NextBroken]_vars

(***************************************************************************)
(* Properties of the balloon geometry (SpecBalloon)                        *)
(***************************************************************************)
EdgeSides == {TOP, RIGHT, LEFT, BOTTOM}
Called == plan.pc # "call"
\* the tail point lies inside or on the rectangle inflated by 20 on each side
TailInBB ==
    /\ geo.x - 20 <= geo.tx /\ geo.tx <= geo.x + geo.w + 20
    /\ geo.y - 20 <= geo.ty /\ geo.ty <= geo.y + geo.h + 20

\* twice the vector from the centre of the rectangle to the tail point
Dx2 == 2 * geo.tx - 2 * geo.x - geo.w
Dy2 == 2 * geo.ty - 2 * geo.y - geo.h

\* the tail point lies in the wedge of side sd, between the two half-lines
\* from the centre through the corners of that edge (boundary included)
InWedge(sd) ==
    IF sd = TOP THEN (0 - Dy2) * geo.w >= geo.h * Abs(Dx2)
    ELSE IF sd = BOTTOM THEN Dy2 * geo.w >= geo.h * Abs(Dx2)
    ELSE IF sd = RIGHT THEN Dx2 * geo.h >= geo.w * Abs(Dy2)
    ELSE (0 - Dx2) * geo.h >= geo.w * Abs(Dy2)

\* the same, boundary excluded
InOpenWedge(sd) ==
    IF sd = TOP THEN (0 - Dy2) * geo.w > geo.h * Abs(Dx2)
    ELSE IF sd = BOTTOM THEN Dy2 * geo.w > geo.h * Abs(Dx2)
    ELSE IF sd = RIGHT THEN Dx2 * geo.h > geo.w * Abs(Dy2)
    ELSE (0 - Dx2) * geo.h > geo.w * Abs(Dy2)

IsRect(x, y, w, h) == geo.x = x /\ geo.y = y /\ geo.w = w /\ geo.h = h
IsTail(tx, ty) == geo.tx = tx /\ geo.ty = ty

\* C1: for a rectangle with w > 0 and h > 0 and a tail point outside the
\* box inflated by 20, _calc_tail selects one of TOP, RIGHT, LEFT, BOTTOM, the
\* tail point lies in the wedge of the selected edge and strictly inside no
\* other wedge; rectangle (0,0,100,100) with tail (50,200) selects BOTTOM and
\* with tail (-200,50) selects LEFT.
C1_TailEdge ==
    (Called /\ geo.w > 0 /\ geo.h > 0 /\ ~TailInBB) =>
        /\ plan.pc = "done"
        /\ plan.side \in EdgeSides
        /\ Len(plan.seg) = 2
        /\ InWedge(plan.side)
        /\ \A sd \in EdgeSides \ {plan.side} : ~InOpenWedge(sd)
        /\ (IsRect(0, 0, 100, 100) /\ IsTail(50, 200)) => plan.side = BOTTOM
        /\ (IsRect(0, 0, 100, 100) /\ IsTail(0 - 200, 50)) => plan.side = LEFT

C1_Witness ==
    /\ plan.pc = "done"
    /\ IsRect(0, 0, 100, 100) /\ IsTail(0 - 200, 50)
    /\ plan.side = LEFT

LinesOf(role) ==
    { i \in 1..Len(plan.prims) :
        plan.prims[i].kind = "line" /\ plan.prims[i].role = role }

NoTailDrawn ==
    \A i \in 1..Len(plan.prims) :
        plan.prims[i].role # "tail" /\ plan.prims[i].kind # "polygon"

\* the four edges, each one line from corner inset to corner inset
UnsplitEdges ==
    LET rr2 == CornerR(geo.w, geo.h) \div 2
        only(role, p) ==
            /\ Cardinality(LinesOf(role)) = 1
            /\ \A i \in LinesOf(role) : plan.prims[i].p = p
    IN  /\ only("left", <<geo.x, geo.y + rr2, geo.x, geo.y - rr2 + geo.h>>)
        /\ only("right", <<geo.x + geo.w, geo.y + rr2,
                           geo.x + geo.w, geo.y - rr2 + geo.h>>)
        /\ only("top", <<geo.x + rr2, geo.y, geo.x - rr2 + geo.w, geo.y>>)
        /\ only("bottom", <<geo.x + rr2, geo.y + geo.h,
                            geo.x - rr2 + geo.w, geo.y + geo.h>>)

NoLines == \A i \in 1..Len(plan.prims) : plan.prims[i].kind # "line"

\* C2 as stated: with the tail point inside or on the inflated box there is
\* no gap segment, no selected edge, no tail primitive, and every one of the
\* four edges is drawn as a single unsplit segment.
C2_Original ==
    (Called /\ TailInBB) =>
        /\ plan.pc = "done"
        /\ plan.seg = <<>> /\ plan.side = NoSide
        /\ NoTailDrawn
        /\ UnsplitEdges

\* C2 (amended): with the tail point inside or on the inflated box there is
\* no gap segment, no selected edge and no tail primitive; in outline mode
\* every one of the four edges is drawn as a single unsplit segment, and in
\* filled mode no edge segment is drawn at all (the body is two rectangles).
C2_NoTailInside ==
    (Called /\ TailInBB) =>
        /\ plan.pc = "done"
        /\ plan.seg = <<>> /\ plan.side = NoSide
        /\ NoTailDrawn
        /\ IF geo.bfill THEN NoLines ELSE UnsplitEdges

C2_Witness ==
    /\ plan.pc = "done"
    /\ IsRect(0, 0, 100, 100) /\ IsTail(0 - 20, 50)
    /\ ~geo.bfill
    /\ Cardinality(LinesOf("left")) = 1

\* C3: balloon geometry never fails: for every rectangle size, width 0 and
\* height 0 included, and every tail point, _draw_balloon completes without
\* raising and produces a plan.
C3_NeverFails == Called => (plan.pc = "done" /\ Len(plan.prims) >= 6)

(***************************************************************************)
(* Properties of _wrap_text as a function (SpecWrap)                       *)
(***************************************************************************)
WPc == wq.ws.pc
Returned == WPc = "done"
Ended == WPc \in {"done", "raised"}
UnknownWidth == wq.w = 0

\* C5: in unknown-width mode with the target height equal to one line
\* height, _wrap_text does not raise and, for a non-empty text without
\* paragraph marker, returns exactly one line holding the whole text.
C5_OneLine ==
    (Ended /\ UnknownWidth /\ wq.h = FY) =>
        /\ Returned
        /\ (wq.s # <<>> /\ ~HasMarker(wq.s)) => wq.ws.lines = <<wq.s>>

\* C6 as stated: in unknown-width mode the number of lines returned never
\* exceeds maxLines = floor(targetHeight / lineHeight).
C6_Original ==
    (Returned /\ UnknownWidth) => Len(wq.ws.lines) <= wq.h \div FY

\* C6 (amended): in unknown-width mode the number of lines returned never
\* exceeds the larger of maxLines and the number of paragraphs the markers
\* split the text into; without a paragraph marker it never exceeds maxLines.
C6_LineBudget ==
    (Returned /\ UnknownWidth) =>
        Len(wq.ws.lines) <= Max(wq.h \div FY, Len(SplitMarker(wq.s, <<>>)))

C6_Witness ==
    /\ Returned /\ UnknownWidth
    /\ wq.h \div FY = 2
    /\ Len(wq.ws.lines) = 3
    /\ Len(SplitMarker(wq.s, <<>>)) = 3

StartWidth == Max(Len(wq.s) \div (wq.h \div FY), 8)

\* C7: the widen search of unknown-width mode always terminates: wrap_width
\* starts at max(n // max_lines, 8), grows by exactly 1 per iteration, never
\* passes the text length (so the distance to the text length shrinks on every
\* iteration), and the call ends by returning a result, never by raising.
C7_Terminates ==
    /\ [][(WPc = "call" /\ wq'.ws.pc = "loop") => wq'.ws.wrap_width = StartWidth]_vars
    /\ [][(WPc = "loop" /\ wq'.ws.pc = "loop")
            => wq'.ws.wrap_width = wq.ws.wrap_width + 1]_vars
    /\ [](WPc = "loop" => wq.ws.wrap_width <= Max(wq.ws.n, StartWidth))
    /\ []((UnknownWidth /\ wq.h >= FY) => WPc # "raised")

(***************************************************************************)
(* Properties of the captioner (Spec)                                      *)
(***************************************************************************)
Finished == out.nfinish > 0
FinishStep == out'.nfinish = out.nfinish + 1
NoImage == out.canvas = <<>> /\ out.paste = <<>> /\ out.prims = <<>>

\* the placement of the side asks for unknown-width mode with a height
\* below one line
TooSmall(c) ==
    /\ Place(c).branch # "error"
    /\ Place(c).text_width = 0
    /\ Place(c).text_height < FY

\* C4: in unknown-width mode with the target height below one line height,
\* finish() fails with the 'image too small' error, no canvas is allocated
\* or returned, and the text buffer and the configuration are unchanged.
C4_TooSmall ==
    /\ []((Finished /\ TooSmall(cfg)) =>
            /\ out.status = "TooSmall"
            /\ out.steps = <<"place", "wrap">>
            /\ NoImage)
    /\ [][(FinishStep /\ TooSmall(cfg)) => (text' = text /\ cfg' = cfg)]_vars

C4_Witness ==
    /\ Finished /\ TooSmall(cfg)
    /\ text # <<>>
    /\ out.status = "TooSmall"

\* what the caller can see of the layout of one finish()
Layout(o) ==
    <<o.status, o.lines, o.text_dim, o.text_xoffs, o.text_yoffs,
      o.text_width, o.text_height, o.canvas, o.paste>>

\* C8: a second finish() with no addtext() in between gives the same
\* wrapped text and the same placement rectangle as the first.
C8_Idempotent == [][(Finished /\ FinishStep) => Layout(out') = Layout(out)]_vars

C8_Witness ==
    /\ out.nfinish = 2
    /\ out.status = "ok"
    /\ cfg.side \in {LEFT, RIGHT} /\ cfg.spc = 0
    /\ ~words.none
    /\ Len(out.lines) >= 2

PlaceTests == <<PlaceTB, PlaceLR, PlaceQuad, PlaceHalf>>
PasteTests == <<PasteTop, PasteOrigin, PasteLeft, PasteInner>>
Matching(tests, sd) == { i \in 1..Len(tests) : sd \in tests[i] }

\* C9: each of the twelve sides is matched by exactly one placement test
\* and one paste test and never reaches an error branch of finish(); any
\* other side value makes finish() raise before anything is wrapped,
\* allocated or drawn.
C9_Regions ==
    /\ [](\A sd \in Sides :
            /\ Cardinality(Matching(PlaceTests, sd)) = 1
            /\ Cardinality(Matching(PasteTests, sd)) = 1)
    /\ []((Finished /\ cfg.side \in Sides) =>
            /\ out.status \notin {"ValueError:side", "ValueError:paste"}
            /\ out.branch \in {"TB", "LR", "Quad", "Half"}
            /\ out.status = "ok" => out.paste_branch \in {"Top", "Origin", "Left", "Inner"})
    /\ []((Finished /\ cfg.side \notin Sides) =>
            /\ out.status = "ValueError:side"
            /\ out.steps = <<"place">>
            /\ out.lines = <<>>
            /\ NoImage)
    /\ [][(FinishStep /\ cfg.side \notin Sides) => words' = words]_vars

C9_Witness ==
    /\ Finished
    /\ cfg.side = S + 1
    /\ text # <<>>
    /\ out.status = "ValueError:side"

TopAuto ==
    /\ Finished /\ out.status = "ok"
    /\ cfg.side = TOP /\ cfg.spc = 0
    /\ cfg.shiftx = 0 /\ cfg.shifty = 0

\* C10: for side TOP with space 0 and no shift the text x-offset is padx,
\* the canvas is base_width wide and base_height + text height + 2 * pady
\* high, and the base image is pasted at (0, canvas height - base_height);
\* a 200x100 image with padding (5,5) has x-offset 5 and height 100 + th + 10.
C10_TopPlacement ==
    TopAuto =>
        /\ out.text_xoffs = cfg.padx
        /\ out.text_yoffs = cfg.pady
        /\ out.canvas = <<cfg.base_width,
                          cfg.base_height + out.text_dim[2] + 2 * cfg.pady>>
        /\ out.paste = <<0, out.canvas[2] - cfg.base_height>>
        /\ (cfg.base_width = 200 /\ cfg.base_height = 100
               /\ cfg.padx = 5 /\ cfg.pady = 5) =>
             /\ out.text_xoffs = 5
             /\ out.canvas[2] = 100 + out.text_dim[2] + 10
             /\ out.paste = <<0, out.text_dim[2] + 10>>

C10_Witness ==
    /\ TopAuto
    /\ cfg.base_width = 200 /\ cfg.base_height = 100
    /\ cfg.padx = 5 /\ cfg.pady = 5
    /\ Len(out.lines) >= 2


(***************************************************************************)
(* Properties of _broken_words as a function (SpecBroken)                  *)
(***************************************************************************)
BrokenEnded == bq.pc \in {"done", "raised"}
TextTokens == Tokens(bq.s)
CandidateTokens == LineTokens(bq.lines)

\* C11: on a fresh CapImg the broken-word detector returns True exactly when
\* the word tokens read from the candidate lines, in order, differ from the
\* word tokens of the text, and returns False when the two sequences are
\* equal.
C11_Detector ==
    BrokenEnded =>
        /\ (bq.res = "True") <=> (CandidateTokens # TextTokens)
        /\ (CandidateTokens = TextTokens) => (bq.res = "False")

(***************************************************************************)
(* Properties of the balloon outline (SpecBalloon)                         *)
(***************************************************************************)
EdgeRole(sd) ==
    IF sd = TOP THEN "top" ELSE IF sd = BOTTOM THEN "bottom"
    ELSE IF sd = LEFT THEN "left" ELSE "right"
Horizontal(sd) == sd \in {TOP, BOTTOM}
Inset == CornerR(geo.w, geo.h) \div 2

\* an edge runs along one axis from EdgeLo to EdgeHi at the coordinate EdgeAt
EdgeLo(sd) == IF Horizontal(sd) THEN geo.x + Inset ELSE geo.y + Inset
EdgeHi(sd) ==
    IF Horizontal(sd) THEN geo.x + geo.w - Inset ELSE geo.y + geo.h - Inset
EdgeAt(sd) ==
    IF sd = TOP THEN geo.y ELSE IF sd = BOTTOM THEN geo.y + geo.h
    ELSE IF sd = LEFT THEN geo.x ELSE geo.x + geo.w
EdgeSegment(sd, a, b) ==
    IF Horizontal(sd) THEN <<a, EdgeAt(sd), b, EdgeAt(sd)>>
    ELSE <<EdgeAt(sd), a, EdgeAt(sd), b>>
GapEnd(sd, k) == IF Horizontal(sd) THEN plan.seg[k][1] ELSE plan.seg[k][2]
EdgeDrawn(sd) == { plan.prims[i].p : i \in LinesOf(EdgeRole(sd)) }

\* the selected edge: two segments, corner inset to the nearer gap end
SplitEdge(sd) ==
    /\ Cardinality(LinesOf(EdgeRole(sd))) = 2
    /\ EdgeDrawn(sd) = { EdgeSegment(sd, EdgeLo(sd), GapEnd(sd, 1)),
                         EdgeSegment(sd, GapEnd(sd, 2), EdgeHi(sd)) }
    /\ EdgeLo(sd) <= GapEnd(sd, 1)
    /\ GapEnd(sd, 1) <= GapEnd(sd, 2)
    /\ GapEnd(sd, 2) <= EdgeHi(sd)

\* any other edge: one segment from corner inset to corner inset
WholeEdge(sd) ==
    /\ Cardinality(LinesOf(EdgeRole(sd))) = 1
    /\ EdgeDrawn(sd) = { EdgeSegment(sd, EdgeLo(sd), EdgeHi(sd)) }

OutlineEdges ==
    \A sd \in EdgeSides : IF plan.side = sd THEN SplitEdge(sd) ELSE WholeEdge(sd)

\* C12: in outline mode, for every rectangle and tail point, each edge other
\* than the selected tail edge is drawn as exactly one segment between its
\* corner insets, and the selected edge as exactly two segments, each from a
\* corner inset to the nearer gap end, neither past the gap nor reversed.
C12_OutlineEdges ==
    (Called /\ ~geo.bfill) => (plan.pc = "done" /\ OutlineEdges)

(***************************************************************************)
(* Properties of the text returned by _wrap_text (SpecWrap)                *)
(***************************************************************************)
\* '\n'.join(lines) is not the empty string
NonEmptyWrapped ==
    /\ wq.ws.lines # <<>>
    /\ (Len(wq.ws.lines) > 1 \/ wq.ws.lines[1] # <<>>)

\* C13: in unknown-width mode with a target height of at least one line, for
\* every non-empty text the result returned by _wrap_text is non-empty and
\* its word tokens are the word tokens of the text, in order.
C13_NoTextLost ==
    (Returned /\ UnknownWidth /\ wq.h >= FY /\ wq.s # <<>>) =>
        /\ NonEmptyWrapped
        /\ LineTokens(wq.ws.lines) = Tokens(wq.s)

(***************************************************************************)
(* Properties of the memo self._words over addtext and finish (Spec)       *)
(***************************************************************************)
\* the text buffer as finish() joins it
Joined == Strip(JoinSpace(text))

\* finish() on this configuration and text reaches _broken_words: the
\* statements before the first check do not read the memo
ChecksWords == ~finish(cfg, text, NoWords, 1, 1).words.none

\* C14: every broken-word check made during a finish() compares the lines
\* against the word tokens of the text buffer as joined at that finish(); a
\* token list memoized by an earlier finish() is not used after addtext()
\* has changed the text.
C14_FreshTokens == (Finished /\ ChecksWords) => words.toks = Tokens(Joined)

(***************************************************************************)
(* Properties of the south-anchored inner sides (Spec)                     *)
(***************************************************************************)
SouthSides == {S, SE, SW}

\* finish() returned an image for a south-anchored side with zero shift
SouthDrawn ==
    /\ Finished /\ out.status = "ok"
    /\ cfg.side \in SouthSides
    /\ cfg.shiftx = 0 /\ cfg.shifty = 0
    /\ cfg.base_height % 2 = 0

\* C15: for the sides S, SE and SW with zero shift and an image of even
\* height H, the text is drawn at the y-offset H - th - pady, with th the
\* height of the wrapped text: the same offset for all three sides.
C15_SouthOffset ==
    SouthDrawn => out.text_yoffs = cfg.base_height - out.text_dim[2] - cfg.pady
====
